---------------------------- MODULE Spec2Model ----------------------------
(***************************************************************************)
(* The service registry of skydns (src/registry/registry.go): a label tree *)
(* of nodes, an identity index from UUID to the node holding the service,  *)
(* and the facade operations Add, Get, GetUUID, GetExpired, Remove,        *)
(* RemoveUUID, UpdateTTL and Len.                                          *)
(*                                                                         *)
(* Strings are sequences of one-character strings, so that lower-casing,   *)
(* the replacement of dots and the splitting of a key at its dots are      *)
(* computed as strings.ToLower, strings.Replace and strings.Split compute  *)
(* them.  Time is an integer number of seconds.                            *)
(*                                                                         *)
(* A *node of the source is modelled by where the node is: a node that is  *)
(* in the tree is named by its path of labels from the root, a node that   *)
(* was deleted from the tree while the identity index still refers to it   *)
(* is kept, as the object it was, in the index entry itself.               *)
(***************************************************************************)
EXTENDS Integers, Sequences, FiniteSets, Bags, TLC

\* ------------------------------------------------------------------ bounds

\* The wall clock runs from 0 to MaxTime.
MaxTime == 1

\* At most MaxCalls calls of the facade are made.
MaxCalls == 3

\* NumProcs goroutines call the facade at the same time, and make at most
\* MaxConcCalls calls between them.
NumProcs == 2
MaxConcCalls == 4

\* ----------------------------------------------------------------- strings

Dot == "."

Hyphen == "-"

UpperChars == <<"A", "B", "C", "D", "E", "F", "G", "H", "I", "J", "K", "L", "M",
                "N", "O", "P", "Q", "R", "S", "T", "U", "V", "W", "X", "Y", "Z">>

LowerChars == <<"a", "b", "c", "d", "e", "f", "g", "h", "i", "j", "k", "l", "m",
                "n", "o", "p", "q", "r", "s", "t", "u", "v", "w", "x", "y", "z">>

\* unicode.ToLower on the upper-case letters.
UpperToLower ==
    [c \in {UpperChars[i] : i \in 1..Len(UpperChars)} |->
        LowerChars[CHOOSE i \in 1..Len(UpperChars) : UpperChars[i] = c]]

\* unicode.ToLower of one character.
LowerChar(c) == IF c \in DOMAIN UpperToLower THEN UpperToLower[c] ELSE c

\* strings.ToLower(s)
ToLower(s) == [i \in 1..Len(s) |-> LowerChar(s[i])]

\* strings.Replace(s, old, new, -1) for one-character old and new.
Replace(s, old, new) == [i \in 1..Len(s) |-> IF s[i] = old THEN new ELSE s[i]]

\* strings.HasSuffix(s, ".")
HasSuffixDot(s) == Len(s) > 0 /\ s[Len(s)] = Dot

\* strings.Split(s, "."): the pieces between the dots, empty pieces kept.
RECURSIVE Split(_)
Split(s) ==
    IF \A i \in 1..Len(s) : s[i] # Dot
    THEN <<s>>
    ELSE LET i == CHOOSE j \in 1..Len(s) :
                      s[j] = Dot /\ \A m \in 1..(j - 1) : s[m] # Dot
         IN  <<SubSeq(s, 1, i - 1)>> \o Split(SubSeq(s, i + 1, Len(s)))

\* fmt.Sprintf("%s.%s.%s.%s.%s.%s", a, b, c, d, e, f)
Sprintf6(a, b, c, d, e, f) ==
    a \o <<Dot>> \o b \o <<Dot>> \o c \o <<Dot>> \o d \o <<Dot>> \o e \o <<Dot>> \o f

\* The wildcard labels of node.get.
AnyLabel == <<"a", "n", "y">>

AllLabel == <<"a", "l", "l">>

\* ---------------------------------------------------------------- services

\* msg.Service: UUID, Host, Region, Version, Name, Environment, TTL.
UUIDs == {<<"A">>, <<"a">>, <<"b">>}

Hosts == {<<"H">>, <<"a", ".", "h">>}

Regions == {<<"r">>}

Versions == {<<"1", ".", "0">>}

Names == {<<"n">>}

Environments == {<<"e">>, <<"F">>}

TTLs == {0, 1}

\* The services handed to Add and Remove: every spelling of the UUIDs in both
\* environments, and one service with a dot in its Host, whose key has seven
\* labels and ends as the key of the services with UUID "a" or "A" does.
Services ==
    {s \in [UUID : UUIDs, Host : Hosts, Region : Regions, Version : Versions,
            Name : Names, Environment : Environments, TTL : TTLs] :
        s.Host = <<"H">> \/ (s.UUID = <<"b">> /\ s.Environment = <<"e">>)}

\* The zero value of msg.Service, the value of a node that is not a leaf.
ZeroService ==
    [UUID |-> <<>>, Host |-> <<>>, Region |-> <<>>, Version |-> <<>>,
     Name |-> <<>>, Environment |-> <<>>, TTL |-> 0]

\* The zero value of time.Time, before every time of the clock.
ZeroTime == -1

\* The error values; nil is "nil".
nil == "nil"

ErrExists == "ErrExists"

ErrNotExists == "ErrNotExists"

\* The key as it would be without strings.ToLower.
getRegistryKey_KeepsCase(s) ==
    Sprintf6(s.UUID, s.Host, s.Region, Replace(s.Version, Dot, Hyphen),
             s.Name, s.Environment)

\* getRegistryKey(s)
getRegistryKey(s) ==
    ToLower(Sprintf6(s.UUID, s.Host, s.Region, Replace(s.Version, Dot, Hyphen),
                     s.Name, s.Environment))

\* getExpirationTime(ttl) at wall-clock time t.
getExpirationTime(ttl, t) == t + ttl

\* --------------------------------------------------------------- the tree

\* A map with no keys.
EmptyMap == [k \in {} |-> 0]

\* m[k] = v
MapPut(m, k, v) == [x \in DOMAIN m \cup {k} |-> IF x = k THEN v ELSE m[x]]

\* delete(m, k)
MapDelete(m, k) == [x \in DOMAIN m \ {k} |-> m[x]]

\* newNode()
newNode ==
    [leaves |-> EmptyMap, depth |-> 0, length |-> 0,
     value |-> ZeroService, expires |-> ZeroTime]

\* n.size()
size(n) == n.length

\* tree[:len(tree)-1]
Front(tree) == SubSeq(tree, 1, Len(tree) - 1)

\* tree[len(tree)-1]
Last(tree) == tree[Len(tree)]

\* The path of labels from the root to the node that the key `tree` names.
RECURSIVE Reverse(_)
Reverse(tree) == IF tree = <<>> THEN <<>> ELSE <<Last(tree)>> \o Reverse(Front(tree))

\* n.add as it would be with the length counted before the recursive call's
\* error is looked at.
RECURSIVE nodeAdd_CountsFirst(_, _, _, _)
nodeAdd_CountsFirst(n, tree, s, t) ==
    IF Len(tree) = 1
    THEN IF tree[1] \in DOMAIN n.leaves
         THEN [node |-> n, err |-> ErrExists]
         ELSE [node |-> [n EXCEPT
                           !.leaves = MapPut(@, tree[1],
                               [value |-> s,
                                expires |-> getExpirationTime(s.TTL, t),
                                leaves |-> EmptyMap,
                                depth |-> n.depth + 1,
                                length |-> 0]),
                           !.length = @ + 1],
               err |-> nil]
    ELSE LET k == Last(tree)
             n1 == IF k \in DOMAIN n.leaves
                   THEN n
                   ELSE [n EXCEPT !.leaves =
                            MapPut(@, k, [newNode EXCEPT !.depth = n.depth + 1])]
             r == nodeAdd_CountsFirst(n1.leaves[k], Front(tree), s, t)
         IN  [node |-> [n1 EXCEPT !.leaves[k] = r.node, !.length = @ + 1],
              err |-> r.err]

\* n.add as it would be if only the node that takes the new leaf counted it.
RECURSIVE nodeAdd_CountsLeafOnly(_, _, _, _)
nodeAdd_CountsLeafOnly(n, tree, s, t) ==
    IF Len(tree) = 1
    THEN IF tree[1] \in DOMAIN n.leaves
         THEN [node |-> n, err |-> ErrExists]
         ELSE [node |-> [n EXCEPT
                           !.leaves = MapPut(@, tree[1],
                               [value |-> s,
                                expires |-> getExpirationTime(s.TTL, t),
                                leaves |-> EmptyMap,
                                depth |-> n.depth + 1,
                                length |-> 0]),
                           !.length = @ + 1],
               err |-> nil]
    ELSE LET k == Last(tree)
             n1 == IF k \in DOMAIN n.leaves
                   THEN n
                   ELSE [n EXCEPT !.leaves =
                            MapPut(@, k, [newNode EXCEPT !.depth = n.depth + 1])]
             r == nodeAdd_CountsLeafOnly(n1.leaves[k], Front(tree), s, t)
         IN  [node |-> [n1 EXCEPT !.leaves[k] = r.node], err |-> r.err]

\* n.add(tree, s) at time t: the node afterwards and the error.  The new leaf
\* that the source returns is the node at Reverse(tree).
RECURSIVE nodeAdd(_, _, _, _)
nodeAdd(n, tree, s, t) ==
    IF Len(tree) = 1
    THEN IF tree[1] \in DOMAIN n.leaves
         THEN [node |-> n, err |-> ErrExists]
         ELSE [node |-> [n EXCEPT
                           !.leaves = MapPut(@, tree[1],
                               [value |-> s,
                                expires |-> getExpirationTime(s.TTL, t),
                                leaves |-> EmptyMap,
                                depth |-> n.depth + 1,
                                length |-> 0]),
                           !.length = @ + 1],
               err |-> nil]
    ELSE LET k == Last(tree)
             n1 == IF k \in DOMAIN n.leaves
                   THEN n
                   ELSE [n EXCEPT !.leaves =
                            MapPut(@, k, [newNode EXCEPT !.depth = n.depth + 1])]
             r == nodeAdd(n1.leaves[k], Front(tree), s, t)
         IN  IF r.err # nil
             THEN [node |-> [n1 EXCEPT !.leaves[k] = r.node], err |-> r.err]
             ELSE [node |-> [n1 EXCEPT !.leaves[k] = r.node, !.length = @ + 1],
                   err |-> nil]

\* n.remove as it would be without the n.length-- of the forward removal.
RECURSIVE nodeRemove_KeepsLength(_, _)
nodeRemove_KeepsLength(n, tree) ==
    IF Len(tree) = 1
    THEN IF tree[1] \notin DOMAIN n.leaves
         THEN [node |-> n, err |-> ErrNotExists]
         ELSE [node |-> [n EXCEPT !.leaves = MapDelete(@, tree[1]),
                                  !.length = @ - 1],
               err |-> nil]
    ELSE LET k == Last(tree)
         IN  IF k \notin DOMAIN n.leaves
             THEN [node |-> n, err |-> ErrNotExists]
             ELSE LET r == nodeRemove_KeepsLength(n.leaves[k], Front(tree))
                  IN  IF r.err = nil
                      THEN [node |-> [n EXCEPT
                                        !.leaves = IF size(r.node) = 0
                                                   THEN MapDelete(@, k)
                                                   ELSE [@ EXCEPT ![k] = r.node]],
                            err |-> nil]
                      ELSE [node |-> [n EXCEPT !.leaves[k] = r.node], err |-> r.err]

\* n.remove as it would be if the last element were counted off and left in
\* the map.
RECURSIVE nodeRemove_KeepsLeaf(_, _)
nodeRemove_KeepsLeaf(n, tree) ==
    IF Len(tree) = 1
    THEN IF tree[1] \notin DOMAIN n.leaves
         THEN [node |-> n, err |-> ErrNotExists]
         ELSE [node |-> [n EXCEPT !.length = @ - 1], err |-> nil]
    ELSE LET k == Last(tree)
         IN  IF k \notin DOMAIN n.leaves
             THEN [node |-> n, err |-> ErrNotExists]
             ELSE LET r == nodeRemove_KeepsLeaf(n.leaves[k], Front(tree))
                  IN  IF r.err = nil
                      THEN [node |-> [n EXCEPT
                                        !.length = @ - 1,
                                        !.leaves = [@ EXCEPT ![k] = r.node]],
                            err |-> nil]
                      ELSE [node |-> [n EXCEPT !.leaves[k] = r.node], err |-> r.err]

\* n.remove as it would be without the cleanup of empty paths.
RECURSIVE nodeRemove_KeepsEmptyPaths(_, _)
nodeRemove_KeepsEmptyPaths(n, tree) ==
    IF Len(tree) = 1
    THEN IF tree[1] \notin DOMAIN n.leaves
         THEN [node |-> n, err |-> ErrNotExists]
         ELSE [node |-> [n EXCEPT !.leaves = MapDelete(@, tree[1]),
                                  !.length = @ - 1],
               err |-> nil]
    ELSE LET k == Last(tree)
         IN  IF k \notin DOMAIN n.leaves
             THEN [node |-> n, err |-> ErrNotExists]
             ELSE LET r == nodeRemove_KeepsEmptyPaths(n.leaves[k], Front(tree))
                  IN  IF r.err = nil
                      THEN [node |-> [n EXCEPT !.length = @ - 1,
                                               !.leaves[k] = r.node],
                            err |-> nil]
                      ELSE [node |-> [n EXCEPT !.leaves[k] = r.node], err |-> r.err]

\* n.remove(tree): the node afterwards and the error.
RECURSIVE nodeRemove(_, _)
nodeRemove(n, tree) ==
    IF Len(tree) = 1
    THEN IF tree[1] \notin DOMAIN n.leaves
         THEN [node |-> n, err |-> ErrNotExists]
         ELSE [node |-> [n EXCEPT !.leaves = MapDelete(@, tree[1]),
                                  !.length = @ - 1],
               err |-> nil]
    ELSE LET k == Last(tree)
         IN  IF k \notin DOMAIN n.leaves
             THEN [node |-> n, err |-> ErrNotExists]
             ELSE LET r == nodeRemove(n.leaves[k], Front(tree))
                  IN  IF r.err = nil
                      THEN [node |-> [n EXCEPT
                                        !.length = @ - 1,
                                        !.leaves = IF size(r.node) = 0
                                                   THEN MapDelete(@, k)
                                                   ELSE [@ EXCEPT ![k] = r.node]],
                            err |-> nil]
                      ELSE [node |-> [n EXCEPT !.leaves[k] = r.node], err |-> r.err]

\* The sum of the bags f[k], k in ks.
RECURSIVE BagSum(_, _)
BagSum(f, ks) ==
    IF ks = {} THEN EmptyBag
    ELSE LET k == CHOOSE x \in ks : TRUE
         IN  f[k] (+) BagSum(f, ks \ {k})

\* A slice of one element, as a bag: the order of a slice filled by ranging
\* over a map is not determined, the number of times a value occurs is.
One(v) == SetToBag({v})

\* n.get as it would be if a wildcard level failed as soon as one of its
\* branches failed.
RECURSIVE nodeGet_FailsOnAnyBranch(_, _)
nodeGet_FailsOnAnyBranch(n, tree) ==
    IF Len(tree) = 1
    THEN IF tree[1] \in {AllLabel, AnyLabel}
         THEN IF DOMAIN n.leaves = {}
              THEN [services |-> EmptyBag, err |-> ErrNotExists]
              ELSE [services |->
                        BagSum([k \in DOMAIN n.leaves |-> One(n.leaves[k].value)],
                               DOMAIN n.leaves),
                    err |-> nil]
         ELSE IF tree[1] \notin DOMAIN n.leaves
              THEN [services |-> EmptyBag, err |-> ErrNotExists]
              ELSE [services |-> One(n.leaves[tree[1]].value), err |-> nil]
    ELSE LET k == Last(tree)
         IN  IF k \in {AllLabel, AnyLabel}
             THEN IF DOMAIN n.leaves = {}
                  THEN [services |-> EmptyBag, err |-> ErrNotExists]
                  ELSE LET sub == [l \in DOMAIN n.leaves |->
                                       nodeGet_FailsOnAnyBranch(n.leaves[l],
                                                                Front(tree))]
                           ok == {l \in DOMAIN n.leaves : sub[l].err = nil}
                       IN  IF ok # DOMAIN n.leaves
                           THEN [services |-> EmptyBag, err |-> ErrNotExists]
                           ELSE [services |->
                                     BagSum([l \in ok |-> sub[l].services], ok),
                                 err |-> nil]
             ELSE IF k \notin DOMAIN n.leaves
                  THEN [services |-> EmptyBag, err |-> ErrNotExists]
                  ELSE nodeGet_FailsOnAnyBranch(n.leaves[k], Front(tree))

\* n.get(tree): the services, as a bag, and the error.
RECURSIVE nodeGet(_, _)
nodeGet(n, tree) ==
    IF Len(tree) = 1
    THEN IF tree[1] \in {AllLabel, AnyLabel}
         THEN IF DOMAIN n.leaves = {}
              THEN [services |-> EmptyBag, err |-> ErrNotExists]
              ELSE [services |->
                        BagSum([k \in DOMAIN n.leaves |-> One(n.leaves[k].value)],
                               DOMAIN n.leaves),
                    err |-> nil]
         ELSE IF tree[1] \notin DOMAIN n.leaves
              THEN [services |-> EmptyBag, err |-> ErrNotExists]
              ELSE [services |-> One(n.leaves[tree[1]].value), err |-> nil]
    ELSE LET k == Last(tree)
         IN  IF k \in {AllLabel, AnyLabel}
             THEN IF DOMAIN n.leaves = {}
                  THEN [services |-> EmptyBag, err |-> ErrNotExists]
                  ELSE LET sub == [l \in DOMAIN n.leaves |->
                                       nodeGet(n.leaves[l], Front(tree))]
                           ok == {l \in DOMAIN n.leaves : sub[l].err = nil}
                       IN  IF ok = {}
                           THEN [services |-> EmptyBag, err |-> ErrNotExists]
                           ELSE [services |->
                                     BagSum([l \in ok |-> sub[l].services], ok),
                                 err |-> nil]
             ELSE IF k \notin DOMAIN n.leaves
                  THEN [services |-> EmptyBag, err |-> ErrNotExists]
                  ELSE nodeGet(n.leaves[k], Front(tree))

\* ----------------------------------------------------- the identity index

\* A *node held by the identity index.  A node that is in the tree is named by
\* its path from the root.  A node that was deleted from the tree is reachable
\* through the index alone: the entry then holds the object itself, of which
\* the index reads and writes only value and expires.
InTree(path) ==
    [attached |-> TRUE, path |-> path,
     obj |-> [value |-> ZeroService, expires |-> ZeroTime]]

Detached(n) ==
    [attached |-> FALSE, path |-> <<>>,
     obj |-> [value |-> n.value, expires |-> n.expires]]

\* Whether following `path` from n leads to a node.
RECURSIVE HasPath(_, _)
HasPath(n, path) ==
    \/ path = <<>>
    \/ /\ Head(path) \in DOMAIN n.leaves
       /\ HasPath(n.leaves[Head(path)], Tail(path))

\* The node that `path` leads to from n.
RECURSIVE NodeAt(_, _)
NodeAt(n, path) ==
    IF path = <<>> THEN n ELSE NodeAt(n.leaves[Head(path)], Tail(path))

\* The node a pointer of the index refers to.
Deref(tr, p) == IF p.attached THEN NodeAt(tr, p.path) ELSE p.obj

\* The index after the tree changed from `old` to `new` by a removal: a node
\* that is no longer in the tree lives on in the entry that refers to it.
Unlink(ix, old, new) ==
    [u \in DOMAIN ix |->
        IF ix[u].attached /\ ~HasPath(new, ix[u].path)
        THEN Detached(NodeAt(old, ix[u].path))
        ELSE ix[u]]

\* n.value.TTL = ttl; n.expires = e, for the node n at `path`.
RECURSIVE SetTTLAt(_, _, _, _)
SetTTLAt(n, path, ttl, e) ==
    IF path = <<>>
    THEN [n EXCEPT !.value.TTL = ttl, !.expires = e]
    ELSE [n EXCEPT !.leaves[Head(path)] = SetTTLAt(@, Tail(path), ttl, e)]

\* ------------------------------------------------------------ the facade

\* r.Add(s) at time t, on the tree tr and the index ix.
Add(tr, ix, s, t) ==
    IF s.UUID \in DOMAIN ix
    THEN [tree |-> tr, nodes |-> ix, err |-> ErrExists]
    ELSE LET k == getRegistryKey(s)
             r == nodeAdd(tr, Split(k), s, t)
             p == Reverse(Split(k))
         IN  IF r.err = nil
             THEN [tree |-> r.node,
                   nodes |-> MapPut(ix, NodeAt(r.node, p).value.UUID, InTree(p)),
                   err |-> nil]
             ELSE [tree |-> r.node, nodes |-> ix, err |-> r.err]

\* r.Remove(s)
Remove(tr, ix, s) ==
    LET k == getRegistryKey(s)
        r == nodeRemove(tr, Split(k))
    IN  IF r.err # nil
        THEN [tree |-> r.node, nodes |-> ix, err |-> r.err]
        ELSE [tree |-> r.node,
              nodes |-> MapDelete(Unlink(ix, tr, r.node), s.UUID),
              err |-> nil]

\* r.RemoveUUID(uuid)
RemoveUUID(tr, ix, uuid) ==
    IF uuid \in DOMAIN ix
    THEN Remove(tr, ix, Deref(tr, ix[uuid]).value)
    ELSE [tree |-> tr, nodes |-> ix, err |-> ErrNotExists]

\* The expiration e set on the node of every UUID of us.
RECURSIVE PushAll(_, _, _, _)
PushAll(tr, ix, us, e) ==
    IF us = {}
    THEN [tree |-> tr, nodes |-> ix]
    ELSE LET u == CHOOSE x \in us : TRUE
             r == PushAll(tr, ix, us \ {u}, e)
         IN  IF ix[u].attached
             THEN [tree |-> SetTTLAt(r.tree, ix[u].path,
                                     NodeAt(r.tree, ix[u].path).value.TTL, e),
                   nodes |-> r.nodes]
             ELSE [tree |-> r.tree,
                   nodes |-> [r.nodes EXCEPT ![u].obj.expires = e]]

\* r.UpdateTTL as it would be if the ping of one service pushed out the
\* expiration of all.
UpdateTTL_PushesAll(tr, ix, uuid, ttl, t) ==
    IF uuid \in DOMAIN ix
    THEN LET e == getExpirationTime(ttl, t)
             r == PushAll(tr, ix, DOMAIN ix, e)
         IN  IF ix[uuid].attached
             THEN [tree |-> SetTTLAt(r.tree, ix[uuid].path, ttl, e),
                   nodes |-> r.nodes, err |-> nil]
             ELSE [tree |-> r.tree,
                   nodes |-> [r.nodes EXCEPT ![uuid].obj.value.TTL = ttl,
                                             ![uuid].obj.expires = e],
                   err |-> nil]
    ELSE [tree |-> tr, nodes |-> ix, err |-> ErrNotExists]

\* r.UpdateTTL(uuid, ttl) at time t
UpdateTTL(tr, ix, uuid, ttl, t) ==
    IF uuid \in DOMAIN ix
    THEN LET p == ix[uuid]
             e == getExpirationTime(ttl, t)
         IN  IF p.attached
             THEN [tree |-> SetTTLAt(tr, p.path, ttl, e), nodes |-> ix, err |-> nil]
             ELSE [tree |-> tr,
                   nodes |-> [ix EXCEPT ![uuid].obj.value.TTL = ttl,
                                        ![uuid].obj.expires = e],
                   err |-> nil]
    ELSE [tree |-> tr, nodes |-> ix, err |-> ErrNotExists]

\* r.GetUUID(uuid)
GetUUID(tr, ix, uuid) ==
    IF uuid \in DOMAIN ix
    THEN [s |-> Deref(tr, ix[uuid]).value, err |-> nil]
    ELSE [s |-> ZeroService, err |-> ErrNotExists]

\* The labels as they would be if the "any" labels were put behind the labels
\* of the domain.
QueryLabels_PadsBehind(domain) ==
    LET d == IF HasSuffixDot(domain) THEN SubSeq(domain, 1, Len(domain) - 1)
             ELSE domain
        tree == Split(d)
    IN  IF Len(tree) < 6
        THEN tree \o [i \in 1..(6 - Len(tree)) |-> AnyLabel]
        ELSE tree

\* The labels r.Get hands to the tree: one trailing dot stripped, the domain
\* split at its dots, and padded in front with "any" up to six labels.
QueryLabels(domain) ==
    LET d == IF HasSuffixDot(domain) THEN SubSeq(domain, 1, Len(domain) - 1)
             ELSE domain
        tree == Split(d)
    IN  IF Len(tree) < 6
        THEN [i \in 1..(6 - Len(tree)) |-> AnyLabel] \o tree
        ELSE tree

\* r.Get(domain)
Get(tr, domain) == nodeGet(tr, QueryLabels(domain))

\* r.GetExpired as it would be if a node counted as expired from its expiration
\* time on.
GetExpired_AtDeadline(tr, ix, t) ==
    LET late == {u \in DOMAIN ix : t >= Deref(tr, ix[u]).expires}
    IN  BagSum([u \in late |-> One(Deref(tr, ix[u]).value.UUID)], late)

\* r.GetExpired() at time t: the UUIDs, as a bag.
GetExpired(tr, ix, t) ==
    LET late == {u \in DOMAIN ix : t > Deref(tr, ix[u]).expires}
    IN  BagSum([u \in late |-> One(Deref(tr, ix[u]).value.UUID)], late)

\* r.Len()
RegistryLen(tr) == size(tr)

\* ------------------------------------------------------------- the inputs

\* The labels joined with dots.
RECURSIVE JoinDots(_)
JoinDots(labels) ==
    IF Len(labels) = 1 THEN labels[1]
    ELSE labels[1] \o <<Dot>> \o JoinDots(Tail(labels))

\* The labels a query may hold at each of the six levels, UUID first.
QueryLevels ==
    << {<<"a">>, <<"A">>, <<"b">>, AnyLabel},
       {<<"h">>, AllLabel},
       {<<"r">>, AnyLabel},
       {<<"1", "-", "0">>},
       {<<"n">>},
       {<<"e">>, <<"f">>, AnyLabel} >>

\* Every query of six labels over QueryLevels.
SixLabelQueries ==
    { <<u, h, r, v, n, e>> :
        u \in QueryLevels[1], h \in QueryLevels[2], r \in QueryLevels[3],
        v \in QueryLevels[4], n \in QueryLevels[5], e \in QueryLevels[6] }

\* Queries of fewer than six labels, among them the empty domain.
ShortQueries ==
    { <<<<"n">>, <<"e">>>>,
      <<<<"n">>, AnyLabel>>,
      <<<<"h">>, <<"r">>, <<"1", "-", "0">>, <<"n">>, <<"f">>>>,
      <<AllLabel>>,
      <<<<"e">>>>,
      <<<<>>>> }

\* Queries of seven labels, as the key of a service with a dot in its Host has.
LongQueries ==
    { <<<<"b">>, <<"a">>, <<"h">>, <<"r">>, <<"1", "-", "0">>, <<"n">>, <<"e">>>>,
      <<AnyLabel, <<"a">>, <<"h">>, <<"r">>, <<"1", "-", "0">>, <<"n">>, AnyLabel>> }

\* The domains of the queries, and the short ones also with a trailing dot.
Domains ==
    {JoinDots(q) : q \in SixLabelQueries \cup ShortQueries \cup LongQueries}
        \cup {JoinDots(q) \o <<Dot>> : q \in ShortQueries}

\* The domains the Get calls of a run are made with.
CallDomains ==
    { JoinDots(<<<<"a">>, <<"h">>, <<"r">>, <<"1", "-", "0">>, <<"n">>, <<"e">>>>),
      JoinDots(<<<<"n">>, AnyLabel>>) \o <<Dot>>,
      JoinDots(<<<<"b">>, AllLabel, <<"r">>, <<"1", "-", "0">>, <<"n">>, <<"f">>>>) }

\* ---------------------------------------------------------------- the state

VARIABLES
    tree,       \* r.tree: the root node
    nodes,      \* r.nodes: UUID -> *node
    now,        \* time.Now(), in seconds
    calls,      \* the number of calls of the facade made so far
    last,       \* the last call: its operation, argument, error and result
    balance,    \* history: Add calls that returned nil, minus Remove and
                \* RemoveUUID calls that returned nil
    live,       \* history: UUID -> the record added under that UUID and not
                \* removed under it since, with the TTL and the deadline last set
    reg,        \* history: the records added and not removed since under
                \* their six labels
    dotSafe,    \* history: no service added so far has a dot outside its Version
    mutex,      \* r.mutex: the goroutine that holds it, or Unlocked
    pc,         \* goroutine -> the statement of the call it is at, or "idle"
    job,        \* goroutine -> its call: the operation, the arguments, the
                \* locals, the error and the result; and the history of the call
    crashed,    \* the runtime has stopped the program with a fatal error
    lin         \* history: the tree and the index after the calls that took
                \* the mutex so far, had each run alone in the order of locking

\* The state of the goroutines that call the facade at the same time.
goroutines == <<mutex, pc, job, crashed, lin>>

vars == <<tree, nodes, now, calls, last, balance, live, reg, dotSafe,
          mutex, pc, job, crashed, lin>>

\* Whether no field of s other than Version holds a dot.
DotFree(s) ==
    \A f \in {s.UUID, s.Host, s.Region, s.Name, s.Environment} :
        \A i \in 1..Len(f) : f[i] # Dot

\* The six labels of a service: its fields in lower case, the dots of the
\* Version replaced by hyphens.
SixLabels(s) ==
    << ToLower(s.UUID), ToLower(s.Host), ToLower(s.Region),
       ToLower(Replace(s.Version, Dot, Hyphen)), ToLower(s.Name),
       ToLower(s.Environment) >>

Call(op, arg, err, out) == [op |-> op, arg |-> arg, err |-> err, out |-> out]

\* The goroutines that call the facade.
Procs == 1..NumProcs

\* The zero value of sync.Mutex: nobody holds it.
Unlocked == 0

\* A goroutine that has made no call yet.
NoJob ==
    [op |-> "none", uuid |-> <<>>, s |-> ZeroService, ttl |-> 0,
     domain |-> <<>>,
     n |-> Detached([value |-> ZeroService, expires |-> ZeroTime]),
     err |-> nil, out |-> <<>>, expect |-> <<>>, rival |-> FALSE,
     absent |-> FALSE]

\* registry.New()
Init ==
    /\ tree = newNode
    /\ nodes = EmptyMap
    /\ now = 0
    /\ calls = 0
    /\ last = Call("New", <<>>, nil, <<>>)
    /\ balance = 0
    /\ live = EmptyMap
    /\ reg = {}
    /\ dotSafe = TRUE
    /\ mutex = Unlocked
    /\ pc = [p \in Procs |-> "idle"]
    /\ job = [p \in Procs |-> NoJob]
    /\ crashed = FALSE
    /\ lin = [tree |-> newNode, nodes |-> EmptyMap]

\* One more call of the facade is made.
Called ==
    /\ calls < MaxCalls
    /\ calls' = calls + 1
    /\ UNCHANGED goroutines

\* The history after Add(s) returned err.
AddHistory(s, err) ==
    IF err = nil
    THEN /\ balance' = balance + 1
         /\ live' = MapPut(live, s.UUID,
                           [value |-> s, deadline |-> now + s.TTL])
         /\ reg' = reg \cup {s}
         /\ dotSafe' = (dotSafe /\ DotFree(s))
    ELSE UNCHANGED <<balance, live, reg, dotSafe>>

\* The history after Remove(s) returned err.
RemoveHistory(s, err) ==
    IF err = nil
    THEN /\ balance' = balance - 1
         /\ live' = MapDelete(live, s.UUID)
         /\ reg' = {x \in reg : SixLabels(x) # SixLabels(s)}
         /\ UNCHANGED dotSafe
    ELSE UNCHANGED <<balance, live, reg, dotSafe>>

\* The history after UpdateTTL(uuid, ttl) returned err.
UpdateTTLHistory(uuid, ttl, err) ==
    IF err = nil /\ uuid \in DOMAIN live
    THEN /\ live' = [live EXCEPT ![uuid] =
                        [value |-> [@.value EXCEPT !.TTL = ttl],
                         deadline |-> now + ttl]]
         /\ reg' = {IF x = live[uuid].value THEN [x EXCEPT !.TTL = ttl] ELSE x :
                       x \in reg}
         /\ UNCHANGED <<balance, dotSafe>>
    ELSE UNCHANGED <<balance, live, reg, dotSafe>>

CallAdd ==
    \E s \in Services :
        LET r == Add(tree, nodes, s, now)
        IN  /\ Called
            /\ tree' = r.tree
            /\ nodes' = r.nodes
            /\ last' = Call("Add", s, r.err, <<>>)
            /\ AddHistory(s, r.err)
            /\ UNCHANGED now

CallRemove ==
    \E s \in Services :
        LET r == Remove(tree, nodes, s)
        IN  /\ Called
            /\ tree' = r.tree
            /\ nodes' = r.nodes
            /\ last' = Call("Remove", s, r.err, <<>>)
            /\ RemoveHistory(s, r.err)
            /\ UNCHANGED now

CallRemoveUUID ==
    \E uuid \in UUIDs :
        LET r == RemoveUUID(tree, nodes, uuid)
        IN  /\ Called
            /\ tree' = r.tree
            /\ nodes' = r.nodes
            /\ last' = Call("RemoveUUID", uuid, r.err, <<>>)
            /\ IF uuid \in DOMAIN nodes
               THEN RemoveHistory(GetUUID(tree, nodes, uuid).s, r.err)
               ELSE UNCHANGED <<balance, live, reg, dotSafe>>
            /\ UNCHANGED now

CallUpdateTTL ==
    \E uuid \in UUIDs, ttl \in TTLs :
        LET r == UpdateTTL(tree, nodes, uuid, ttl, now)
        IN  /\ Called
            /\ tree' = r.tree
            /\ nodes' = r.nodes
            /\ last' = Call("UpdateTTL", <<uuid, ttl>>, r.err, <<>>)
            /\ UpdateTTLHistory(uuid, ttl, r.err)
            /\ UNCHANGED now

CallGetUUID ==
    \E uuid \in UUIDs :
        LET r == GetUUID(tree, nodes, uuid)
        IN  /\ Called
            /\ last' = Call("GetUUID", uuid, r.err, r.s)
            /\ UNCHANGED <<tree, nodes, now, balance, live, reg, dotSafe>>

CallGet ==
    \E domain \in CallDomains :
        LET r == Get(tree, domain)
        IN  /\ Called
            /\ last' = Call("Get", domain, r.err, r.services)
            /\ UNCHANGED <<tree, nodes, now, balance, live, reg, dotSafe>>

\* r.GetExpired as it would be if it dropped the entries it lists from the
\* identity index.
CallGetExpired_Evicts ==
    /\ Called
    /\ last' = Call("GetExpired", <<>>, nil, GetExpired(tree, nodes, now))
    /\ nodes' = [u \in {v \in DOMAIN nodes : ~(now > Deref(tree, nodes[v]).expires)}
                   |-> nodes[u]]
    /\ UNCHANGED <<tree, now, balance, live, reg, dotSafe>>

CallGetExpired ==
    /\ Called
    /\ last' = Call("GetExpired", <<>>, nil, GetExpired(tree, nodes, now))
    /\ UNCHANGED <<tree, nodes, now, balance, live, reg, dotSafe>>

CallLen ==
    /\ Called
    /\ last' = Call("Len", <<>>, nil, RegistryLen(tree))
    /\ UNCHANGED <<tree, nodes, now, balance, live, reg, dotSafe>>

\* A second of wall-clock time passes.
Tick ==
    /\ now < MaxTime
    /\ now' = now + 1
    /\ UNCHANGED <<tree, nodes, calls, last, balance, live, reg, dotSafe>>
    /\ UNCHANGED goroutines

\* The calls of the facade, one at a time, and the passage of time.
Next ==
    \/ CallAdd
    \/ CallRemove
    \/ CallRemoveUUID
    \/ CallUpdateTTL
    \/ CallGetUUID
    \/ CallGet
    \/ CallGetExpired
    \/ CallLen
    \/ Tick

Spec == Init /\ [][Next]_vars

\* ------------------------------------------------------------ goroutines

\* The services, the UUID, the TTL and the domain the goroutines call the
\* facade with: two services whose UUIDs differ in case only, so that they
\* share one key.
ConcServices ==
    {s \in Services : /\ s.UUID \in {<<"a">>, <<"A">>}
                      /\ s.Environment = <<"e">>
                      /\ s.TTL = 0}

ConcUUIDs == {<<"a">>}

ConcTTLs == {1}

ConcDomains == {JoinDots(<<<<"n">>, AnyLabel>>)}

\* A call of `op` as a goroutine starts it.
NewJob(op, uuid, s, ttl, domain) ==
    [NoJob EXCEPT !.op = op, !.uuid = uuid, !.s = s, !.ttl = ttl,
                  !.domain = domain]

\* The calls that take the mutex on entry.
LockedCalls ==
    {NewJob(op, <<>>, s, 0, <<>>) : op \in {"Add", "Remove"}, s \in ConcServices}
        \cup {NewJob("GetUUID", u, ZeroService, 0, <<>>) : u \in ConcUUIDs}
        \cup {NewJob("Get", <<>>, ZeroService, 0, d) : d \in ConcDomains}
        \cup {NewJob("GetExpired", <<>>, ZeroService, 0, <<>>)}

\* The calls that start without the mutex.
UnlockedCalls ==
    {NewJob("RemoveUUID", u, ZeroService, 0, <<>>) : u \in ConcUUIDs}
        \cup {NewJob("UpdateTTL", u, ZeroService, t, <<>>) :
                 u \in ConcUUIDs, t \in ConcTTLs}
        \cup {NewJob("Len", <<>>, ZeroService, 0, <<>>)}

\* The statement a call starts at.
Entry(op) ==
    CASE op \in {"RemoveUUID", "UpdateTTL"} -> "lookup"
      [] op = "Len" -> "size"
      [] OTHER -> "lock"

\* The statement that follows r.mutex.Lock().
Locked(op) ==
    CASE op = "Add" -> "addCheck"
      [] op \in {"Remove", "RemoveUUID"} -> "removeTree"
      [] OTHER -> "read"

\* The statements that read or write the tree or the index, and those among
\* them that write the map of the index.
Accesses ==
    {"addCheck", "addTree", "addIndex", "removeTree", "removeIndex", "read",
     "lookup", "setTTL", "setExpires", "size"}

IndexWrites == {"addIndex", "removeIndex"}

\* Whether uuid is in the index with its leaf in the tree.
RegisteredIn(ix, uuid) == uuid \in DOMAIN ix /\ ix[uuid].attached

\* History: the jobs jb after goroutine p took a step to the index ix: every
\* RemoveUUID in progress notes whether its uuid is unregistered.
Observe(p, jb, ix) ==
    [q \in Procs |->
        IF jb[q].op = "RemoveUUID" /\ (q = p \/ pc[q] # "idle")
        THEN [jb[q] EXCEPT !.absent = @ \/ ~RegisteredIn(ix, jb[q].uuid)]
        ELSE jb[q]]

\* What the call of goroutine p returns and leaves behind when it runs alone
\* on the tree tr and the index ix.
Alone(p, tr, ix) ==
    LET j == job[p] IN
    CASE j.op = "Add" ->
            LET r == Add(tr, ix, j.s, now)
            IN  [tree |-> r.tree, nodes |-> r.nodes, err |-> r.err, out |-> <<>>]
      [] j.op \in {"Remove", "RemoveUUID"} ->
            LET r == Remove(tr, ix, j.s)
            IN  [tree |-> r.tree, nodes |-> r.nodes, err |-> r.err, out |-> <<>>]
      [] j.op = "GetUUID" ->
            LET r == GetUUID(tr, ix, j.uuid)
            IN  [tree |-> tr, nodes |-> ix, err |-> r.err, out |-> r.s]
      [] j.op = "Get" ->
            LET r == Get(tr, j.domain)
            IN  [tree |-> tr, nodes |-> ix, err |-> r.err, out |-> r.services]
      [] OTHER ->
            [tree |-> tr, nodes |-> ix, err |-> nil,
             out |-> GetExpired(tr, ix, now)]

\* The wall clock and the history of the calls made one at a time stay as
\* they are while goroutines run.
Aside == UNCHANGED <<now, last, balance, live, reg, dotSafe>>

\* Goroutine p calls the facade.
Start(p, j) ==
    /\ ~crashed
    /\ pc[p] = "idle"
    /\ calls < MaxConcCalls
    /\ calls' = calls + 1
    /\ pc' = [pc EXCEPT ![p] = Entry(j.op)]
    /\ job' = Observe(p, [job EXCEPT ![p] = j], nodes)
    /\ UNCHANGED <<tree, nodes, mutex, crashed, lin>>
    /\ Aside

InvokeLocked(p) == \E j \in LockedCalls : Start(p, j)

InvokeUnlocked(p) == \E j \in UnlockedCalls : Start(p, j)

\* r.mutex.Lock()
Lock(p) ==
    /\ ~crashed
    /\ pc[p] = "lock"
    /\ mutex = Unlocked
    /\ mutex' = p
    /\ pc' = [pc EXCEPT ![p] = Locked(job[p].op)]
    /\ LET r == Alone(p, lin.tree, lin.nodes)
       IN  /\ lin' = [tree |-> r.tree, nodes |-> r.nodes]
           /\ job' = [job EXCEPT ![p].expect = [err |-> r.err, out |-> r.out]]
    /\ UNCHANGED <<tree, nodes, calls, crashed>>
    /\ Aside

\* Add, line 49: if _, ok := r.nodes[s.UUID]; ok { return ErrExists }
AddCheck(p) ==
    /\ ~crashed
    /\ pc[p] = "addCheck"
    /\ IF job[p].s.UUID \in DOMAIN nodes
       THEN /\ job' = [job EXCEPT ![p].err = ErrExists]
            /\ pc' = [pc EXCEPT ![p] = "unlock"]
       ELSE /\ pc' = [pc EXCEPT ![p] = "addTree"]
            /\ UNCHANGED job
    /\ UNCHANGED <<tree, nodes, calls, mutex, crashed, lin>>
    /\ Aside

\* The step as it would be if Add gave up the mutex once the tree is written,
\* before it writes the index.
AddTree_Unlocks(p) ==
    /\ ~crashed
    /\ pc[p] = "addTree"
    /\ LET r == nodeAdd(tree, Split(getRegistryKey(job[p].s)), job[p].s, now)
       IN  /\ tree' = r.node
           /\ job' = [job EXCEPT ![p].err = r.err]
           /\ pc' = [pc EXCEPT ![p] = IF r.err = nil THEN "addIndex"
                                      ELSE "unlock"]
    /\ mutex' = Unlocked
    /\ UNCHANGED <<nodes, calls, crashed, lin>>
    /\ Aside

\* Add, lines 53-55: n, err := r.tree.add(strings.Split(k, "."), s)
AddTree(p) ==
    /\ ~crashed
    /\ pc[p] = "addTree"
    /\ LET r == nodeAdd(tree, Split(getRegistryKey(job[p].s)), job[p].s, now)
       IN  /\ tree' = r.node
           /\ job' = [job EXCEPT ![p].err = r.err]
           /\ pc' = [pc EXCEPT ![p] = IF r.err = nil THEN "addIndex"
                                      ELSE "unlock"]
    /\ UNCHANGED <<nodes, calls, mutex, crashed, lin>>
    /\ Aside

\* Add, line 58: r.nodes[n.value.UUID] = n
AddIndex(p) ==
    /\ ~crashed
    /\ pc[p] = "addIndex"
    /\ LET path == Reverse(Split(getRegistryKey(job[p].s)))
       IN  nodes' = MapPut(nodes, NodeAt(tree, path).value.UUID, InTree(path))
    /\ job' = Observe(p, job, nodes')
    /\ pc' = [pc EXCEPT ![p] = "unlock"]
    /\ UNCHANGED <<tree, calls, mutex, crashed, lin>>
    /\ Aside

\* The pointer n after the tree changed from `old` to `new` by a removal.
UnlinkLocal(n, old, new) ==
    IF n.attached /\ ~HasPath(new, n.path)
    THEN Detached(NodeAt(old, n.path))
    ELSE n

\* Remove, lines 91-97: err = r.tree.remove(strings.Split(k, "."))
RemoveTree(p) ==
    /\ ~crashed
    /\ pc[p] = "removeTree"
    /\ LET r == nodeRemove(tree, Split(getRegistryKey(job[p].s)))
       IN  /\ tree' = r.node
           /\ nodes' = IF r.err = nil THEN Unlink(nodes, tree, r.node)
                       ELSE nodes
           /\ job' = Observe(p,
                        [q \in Procs |->
                            IF q = p THEN [job[q] EXCEPT !.err = r.err]
                            ELSE IF r.err = nil
                            THEN [job[q] EXCEPT
                                     !.n = UnlinkLocal(@, tree, r.node)]
                            ELSE job[q]],
                        nodes')
           /\ pc' = [pc EXCEPT ![p] = IF r.err = nil THEN "removeIndex"
                                      ELSE "unlock"]
    /\ UNCHANGED <<calls, mutex, crashed, lin>>
    /\ Aside

\* Remove, line 99: delete(r.nodes, s.UUID)
RemoveIndex(p) ==
    /\ ~crashed
    /\ pc[p] = "removeIndex"
    /\ nodes' = MapDelete(nodes, job[p].s.UUID)
    /\ job' = Observe(p, job, nodes')
    /\ pc' = [pc EXCEPT ![p] = "unlock"]
    /\ UNCHANGED <<tree, calls, mutex, crashed, lin>>
    /\ Aside

\* The entries of the index whose node another goroutine is about to write
\* the expiration time of: a read of it at the same time sees any value.
Torn(p) ==
    {u \in DOMAIN nodes :
        \E q \in Procs \ {p} : pc[q] = "setExpires" /\ job[q].n = nodes[u]}

\* The UUIDs of the entries `late` of the index, as a bag.
Listed(late) ==
    BagSum([u \in late |-> One(Deref(tree, nodes[u]).value.UUID)], late)

\* The body of GetUUID (lines 108-112), of Get (lines 128-146) and of
\* GetExpired (lines 154-162).
Read(p) ==
    /\ ~crashed
    /\ pc[p] = "read"
    /\ \E seen \in SUBSET Torn(p) :
          LET r == Alone(p, tree, nodes)
              late == {u \in DOMAIN nodes :
                          now > Deref(tree, nodes[u]).expires}
          IN  job' = [job EXCEPT
                        ![p].err = r.err,
                        ![p].out = IF job[p].op = "GetExpired"
                                   THEN Listed((late \ Torn(p)) \cup seen)
                                   ELSE r.out]
    /\ pc' = [pc EXCEPT ![p] = "unlock"]
    /\ UNCHANGED <<tree, nodes, calls, mutex, crashed, lin>>
    /\ Aside

\* defer r.mutex.Unlock(), and the return of the call. History: a RemoveUUID
\* that returns nil tells the RemoveUUID calls of the same uuid in progress.
Unlock(p) ==
    /\ ~crashed
    /\ pc[p] = "unlock"
    /\ mutex' = Unlocked
    /\ pc' = [pc EXCEPT ![p] = "idle"]
    /\ job' = [q \in Procs |->
                 IF /\ q # p
                    /\ pc[q] # "idle"
                    /\ job[p].op = "RemoveUUID"
                    /\ job[p].err = nil
                    /\ job[q].op = "RemoveUUID"
                    /\ job[q].uuid = job[p].uuid
                 THEN [job[q] EXCEPT !.rival = TRUE]
                 ELSE job[q]]
    /\ UNCHANGED <<tree, nodes, calls, crashed, lin>>
    /\ Aside

\* RemoveUUID, lines 66-70, and UpdateTTL, lines 76 and 82: the read of
\* r.nodes[uuid] without the mutex, and for RemoveUUID the read of n.value.
Lookup(p) ==
    /\ ~crashed
    /\ pc[p] = "lookup"
    /\ IF job[p].uuid \in DOMAIN nodes
       THEN /\ job' = [job EXCEPT
                         ![p].n = nodes[job[p].uuid],
                         ![p].s = IF job[p].op = "RemoveUUID"
                                  THEN Deref(tree, nodes[job[p].uuid]).value
                                  ELSE @]
            /\ pc' = [pc EXCEPT ![p] = IF job[p].op = "RemoveUUID"
                                       THEN "lock" ELSE "setTTL"]
       ELSE /\ job' = [job EXCEPT ![p].err = ErrNotExists]
            /\ pc' = [pc EXCEPT ![p] = "idle"]
    /\ UNCHANGED <<tree, nodes, calls, mutex, crashed, lin>>
    /\ Aside

\* The same read while another goroutine writes the map of the index: the
\* runtime may stop the program with "fatal error: concurrent map read and
\* map write".
LookupFatal(p) ==
    /\ ~crashed
    /\ pc[p] = "lookup"
    /\ \E q \in Procs \ {p} : pc[q] \in IndexWrites
    /\ crashed' = TRUE
    /\ UNCHANGED <<tree, nodes, calls, mutex, pc, job, lin>>
    /\ Aside

\* The index after a write through the pointer n to a node that is no longer
\* in the tree: the entries that refer to the same node see the write.
Aliased(n, obj) ==
    [u \in DOMAIN nodes |->
        IF ~nodes[u].attached /\ nodes[u].obj = n.obj
        THEN [nodes[u] EXCEPT !.obj = obj]
        ELSE nodes[u]]

\* UpdateTTL, line 77: n.value.TTL = ttl
SetTTL(p) ==
    /\ ~crashed
    /\ pc[p] = "setTTL"
    /\ LET n == job[p].n
       IN  IF n.attached
           THEN /\ tree' = SetTTLAt(tree, n.path, job[p].ttl,
                                    NodeAt(tree, n.path).expires)
                /\ UNCHANGED <<nodes, job>>
           ELSE LET obj == [n.obj EXCEPT !.value.TTL = job[p].ttl]
                IN  /\ nodes' = Aliased(n, obj)
                    /\ job' = [job EXCEPT ![p].n.obj = obj]
                    /\ UNCHANGED tree
    /\ pc' = [pc EXCEPT ![p] = "setExpires"]
    /\ UNCHANGED <<calls, mutex, crashed, lin>>
    /\ Aside

\* UpdateTTL, lines 78-79: n.expires = getExpirationTime(ttl); return nil
SetExpires(p) ==
    /\ ~crashed
    /\ pc[p] = "setExpires"
    /\ LET n == job[p].n
           e == getExpirationTime(job[p].ttl, now)
       IN  IF n.attached
           THEN /\ tree' = SetTTLAt(tree, n.path,
                                    NodeAt(tree, n.path).value.TTL, e)
                /\ job' = [job EXCEPT ![p].err = nil]
                /\ UNCHANGED nodes
           ELSE LET obj == [n.obj EXCEPT !.expires = e]
                IN  /\ nodes' = Aliased(n, obj)
                    /\ job' = [job EXCEPT ![p].n.obj = obj, ![p].err = nil]
                    /\ UNCHANGED tree
    /\ pc' = [pc EXCEPT ![p] = "idle"]
    /\ UNCHANGED <<calls, mutex, crashed, lin>>
    /\ Aside

\* Len, line 166: return r.tree.size()
Size(p) ==
    /\ ~crashed
    /\ pc[p] = "size"
    /\ job' = [job EXCEPT ![p].out = RegistryLen(tree)]
    /\ pc' = [pc EXCEPT ![p] = "idle"]
    /\ UNCHANGED <<tree, nodes, calls, mutex, crashed, lin>>
    /\ Aside

\* A step of a call that takes the mutex on entry.
LockedStep(p) ==
    \/ Lock(p)
    \/ AddCheck(p)
    \/ AddTree(p)
    \/ AddIndex(p)
    \/ RemoveTree(p)
    \/ RemoveIndex(p)
    \/ Read(p)
    \/ Unlock(p)

\* A step of RemoveUUID, UpdateTTL or Len outside the mutex.
UnlockedStep(p) ==
    \/ Lookup(p)
    \/ LookupFatal(p)
    \/ SetTTL(p)
    \/ SetExpires(p)
    \/ Size(p)

\* Goroutines that call Add, Remove, Get, GetUUID and GetExpired only.
LockedNext == \E p \in Procs : InvokeLocked(p) \/ LockedStep(p)

LockedSpec == Init /\ [][LockedNext]_vars

\* Goroutines that call all of the facade.
ConcNext ==
    \E p \in Procs :
        InvokeLocked(p) \/ InvokeUnlocked(p) \/ LockedStep(p) \/ UnlockedStep(p)

ConcSpec == Init /\ [][ConcNext]_vars

\* ------------------------------------------------ what the claims speak of

\* The paths from n to every node below it.
RECURSIVE PathsBelow(_)
PathsBelow(n) ==
    UNION { {<<k>>} \cup {<<k>> \o p : p \in PathsBelow(n.leaves[k])} :
            k \in DOMAIN n.leaves }

\* The paths from the root to the nodes that hold a service: the leaves that
\* add made, which alone have a value other than the zero Service.
ServicePaths(tr) == {p \in PathsBelow(tr) : NodeAt(tr, p).value # ZeroService}

\* The services held in the tree.
ServicesIn(tr) == {NodeAt(tr, p).value : p \in ServicePaths(tr)}

\* C1: the identity index and the tree are in lockstep: the UUIDs that are keys
\* of the index are the UUIDs of the leaves reachable from the root, and each
\* entry refers to the leaf in the tree that holds the service with that UUID.
C1_IndexInLockstep ==
    /\ DOMAIN nodes = {s.UUID : s \in ServicesIn(tree)}
    /\ \A u \in DOMAIN nodes :
        /\ nodes[u].attached
        /\ nodes[u].path \in ServicePaths(tree)
        /\ NodeAt(tree, nodes[u].path).value.UUID = u

\* The step is a call of operation op.
IsCall(op) == calls' = calls + 1 /\ last'.op = op

\* Whether the six labels of s lead to a node of the tree.
KeyTaken(tr, s) == DotFree(s) /\ HasPath(tr, Reverse(SixLabels(s)))

\* What every Get and GetUUID of the model's inputs and Len return.
Answers(tr, ix) ==
    [get |-> [d \in Domains |-> Get(tr, d)],
     getUUID |-> [u \in UUIDs |-> GetUUID(tr, ix, u)],
     len |-> RegistryLen(tr)]

\* C2: an Add of a service whose UUID is a key of the identity index, or whose
\* six labels are taken in the tree, returns ErrExists and leaves the tree, its
\* length counters, the index, Len() and what GetUUID and Get return as they were.
C2_AddRejectsDuplicates ==
    [][ IsCall("Add") /\ ( \/ last'.arg.UUID \in DOMAIN nodes
                           \/ KeyTaken(tree, last'.arg) )
        => /\ last'.err = ErrExists
           /\ tree' = tree
           /\ nodes' = nodes
           /\ Answers(tree', nodes') = Answers(tree, nodes) ]_vars

\* C2, witness: an Add was rejected for its UUID, which is registered with a
\* record that differs from the one handed in.
C2_Witness ==
    /\ last.op = "Add"
    /\ last.err = ErrExists
    /\ last.arg.UUID \in DOMAIN nodes
    /\ GetUUID(tree, nodes, last.arg.UUID).s.Environment # last.arg.Environment
    /\ RegistryLen(tree) = 1

\* C2, second case: an Add was rejected for its six labels, taken by a service
\* with another UUID.
C2_WitnessKey ==
    /\ last.op = "Add"
    /\ last.err = ErrExists
    /\ last.arg.UUID \notin DOMAIN nodes
    /\ KeyTaken(tree, last.arg)

\* C3: Len() is the number of Add calls that returned nil minus the number of
\* Remove and RemoveUUID calls that returned nil.
C3_LenIsAddsMinusRemoves == RegistryLen(tree) = balance

\* C3, witness: a removal has succeeded after an Add.
C3_Witness ==
    /\ last.op \in {"Remove", "RemoveUUID"}
    /\ last.err = nil
    /\ RegistryLen(tree) = balance
    /\ calls >= 2

\* Whether a service was added under the UUID u and no Remove or RemoveUUID has
\* succeeded on its six labels since.
Registered(u) == u \in DOMAIN live /\ live[u].value \in reg

\* C4: GetUUID(uuid) returns the record handed to the Add that succeeded under
\* that UUID, with the TTL last set by that Add or by UpdateTTL, if and only if
\* that service has not been removed by a Remove or RemoveUUID that succeeded
\* since; it returns ErrNotExists in every other state.
C4_GetUUIDUntilRemoved ==
    \A u \in UUIDs :
        LET r == GetUUID(tree, nodes, u)
        IN  IF Registered(u)
            THEN r.err = nil /\ r.s = live[u].value
            ELSE r.err = ErrNotExists

\* What GetUUID does do: it follows the calls by the spelling of their UUID.  It
\* returns the record added under uuid until a Remove of a record with that very
\* UUID, or a RemoveUUID of it, succeeds, and ErrNotExists otherwise.
GetUUIDFollowsSpelling ==
    \A u \in UUIDs :
        LET r == GetUUID(tree, nodes, u)
        IN  IF u \in DOMAIN live
            THEN r.err = nil /\ r.s = live[u].value
            ELSE r.err = ErrNotExists

\* GetUUID returned the record of a registered service, while another UUID is
\* unknown.
GetUUIDFollowsSpelling_Witness ==
    /\ last.op = "GetUUID"
    /\ last.err = nil
    /\ last.out = live[last.arg].value
    /\ last.out.Host = <<"H">>
    /\ \E u \in UUIDs : GetUUID(tree, nodes, u).err = ErrNotExists

\* The step is a Remove or RemoveUUID call that returned nil.
Removal == (IsCall("Remove") \/ IsCall("RemoveUUID")) /\ last'.err = nil

\* The record a removal call asks to remove: the argument of Remove, the record
\* the index holds for the argument of RemoveUUID.
Asked(tr, ix, c) ==
    IF c.op = "Remove" THEN c.arg ELSE GetUUID(tr, ix, c.arg).s

\* The record the tree tr holds at the key of s.
Stored(tr, s) == NodeAt(tr, Reverse(Split(getRegistryKey(s)))).value

\* A record without its TTL, which UpdateTTL changes.
Identity(s) == [s EXCEPT !.TTL = 0]

\* The identities of the records Get(domain) returns on tr.
Returned(tr, domain) ==
    {Identity(y) : y \in BagToSet(Get(tr, domain).services)}

\* C5: a Remove or RemoveUUID that returns nil takes one off Len(), as the Add
\* of the service had put one on it, and no Get, exact or wildcard, returns the
\* removed service afterwards; and no call other than an Add that returns nil
\* makes any Get return a service that it did not return before the call.
C5_RemovedStaysGone ==
    [][ /\ Removal =>
            /\ RegistryLen(tree') = RegistryLen(tree) - 1
            /\ \A d \in Domains :
                   Identity(Stored(tree, Asked(tree, nodes, last'))) \notin
                       Returned(tree', d)
        /\ IsCall("Add") /\ last'.err = nil =>
               RegistryLen(tree') = RegistryLen(tree) + 1
        /\ ~(IsCall("Add") /\ last'.err = nil) =>
               \/ tree' = tree
               \/ \A d \in Domains : Returned(tree', d) \subseteq Returned(tree, d)
      ]_vars

\* C5, witness: a Remove of a service that had been added has returned nil, Len()
\* is back at 0, and no Get returns the service.
C5_Witness ==
    /\ last.op = "Remove"
    /\ last.err = nil
    /\ calls = 2
    /\ last.arg.UUID \notin DOMAIN live
    /\ balance = 0
    /\ RegistryLen(tree) = 0
    /\ \A d \in Domains : Identity(last.arg) \notin Returned(tree, d)

\* The labels of the encoded key of each service.
KeyLabels == [s \in Services |-> Split(getRegistryKey(s))]

\* The domain of each query of six labels.
SixLabelDomain == [q \in SixLabelQueries |-> JoinDots(q)]

\* Whether the key labels k match the query labels q label by label: "any" and
\* "all" match every value, any other label matches an equal label only.
Matches(q, k) ==
    /\ Len(q) = Len(k)
    /\ \A i \in 1..Len(q) : q[i] \in {AnyLabel, AllLabel} \/ q[i] = k[i]

\* The registered services whose key matches the query labels q.
Matching(rg, q) == {x \in rg : Matches(q, KeyLabels[x])}

\* Get on the six labels q returns the registered services that match q, each
\* once, and ErrNotExists if and only if there is none.
GetIsMatching(tr, rg, q) ==
    LET r == Get(tr, SixLabelDomain[q])
        m == Matching(rg, q)
    IN  /\ r.services = SetToBag(m)
        /\ r.err = ErrNotExists <=> m = {}
        /\ ~(r.services = EmptyBag /\ r.err = nil)

\* C6, as stated: in every reachable state and for every query of six labels,
\* Get returns exactly the registered services whose key matches the query label
\* by label, each once; it returns ErrNotExists if and only if there is none,
\* and never an empty list without an error.
C6_GetReturnsMatching ==
    \A q \in SixLabelQueries : GetIsMatching(tree, reg, q)

\* C6, amended: the same, in the states reached by adding only services with no
\* dot in their UUID, Host, Region, Name and Environment.
C6_GetReturnsMatchingDotSafe ==
    dotSafe => \A q \in SixLabelQueries : GetIsMatching(tree, reg, q)

\* C6, witness: two services with no dot in their fields are registered in two
\* environments; a wildcard query returns both, a query that names the UUID of
\* one returns that one alone, and a query for a third UUID returns ErrNotExists.
C6_Witness ==
    /\ dotSafe
    /\ Cardinality(reg) = 2
    /\ \E q \in SixLabelQueries :
          /\ q[6] = AnyLabel
          /\ Get(tree, JoinDots(q)).services = SetToBag(reg)
    /\ \E q \in SixLabelQueries :
          /\ q[1] # AnyLabel /\ q[6] = AnyLabel
          /\ Cardinality(Matching(reg, q)) = 1
          /\ Get(tree, JoinDots(q)).services = SetToBag(Matching(reg, q))
    /\ \E q \in SixLabelQueries : Get(tree, JoinDots(q)).err = ErrNotExists

\* The labels q with "any" labels put in front of them up to six.
Pad(q) == [i \in 1..(6 - Len(q)) |-> AnyLabel] \o q

\* The queries of the model, as lists of labels.
Queries == SixLabelQueries \cup ShortQueries \cup LongQueries

\* The domain of each query, and of each short query with the "any" labels in
\* front of it.
QueryDomain == [q \in Queries |-> JoinDots(q)]

PaddedDomain == [q \in ShortQueries |-> JoinDots(Pad(q))]

\* Get of the domain of the short query q returns what Get of the domain with
\* the "any" labels in front of it returns.
PaddingIsImplied(tr, q) == Get(tr, QueryDomain[q]) = Get(tr, PaddedDomain[q])

\* Get of the domain of q with a trailing dot returns what Get of the domain
\* returns.
TrailingDotIsIgnored(tr, q) ==
    Get(tr, QueryDomain[q] \o <<Dot>>) = Get(tr, QueryDomain[q])

\* C7, as stated: for every domain of k < 6 labels, Get returns what it returns
\* for the domain with 6-k "any" labels in front of it, and Get of a domain
\* with one trailing dot returns what Get of the domain without it returns.
C7_ShortDomainsArePadded ==
    /\ \A q \in ShortQueries : PaddingIsImplied(tree, q)
    /\ \A q \in Queries : TrailingDotIsIgnored(tree, q)

\* C7, amended: the same for the domains of k < 6 labels whose last label is
\* not empty, of which the empty domain is not one.
C7_ShortDomainsArePaddedNonEmpty ==
    /\ \A q \in ShortQueries : Last(q) # <<>> => PaddingIsImplied(tree, q)
    /\ \A q \in Queries : TrailingDotIsIgnored(tree, q)

\* C7, witness: a Get of the two labels "n.any." has returned a registered
\* service, which a Get of "any.any.any.any.n.any" returns as well.
C7_Witness ==
    /\ last.op = "Get"
    /\ last.arg = JoinDots(<<<<"n">>, AnyLabel>>) \o <<Dot>>
    /\ last.err = nil
    /\ BagToSet(last.out) = reg
    /\ reg # {}
    /\ Get(tree, JoinDots(Pad(<<<<"n">>, AnyLabel>>))).services = last.out

\* The empty domain, where the two differ: Get("") looks for an empty
\* Environment label, and Get("any.any.any.any.any."), the empty domain with
\* five "any" labels in front, loses its last dot and asks for everything.
C7_EmptyDomainDiffers ==
    /\ reg # {}
    /\ Get(tree, <<>>).err = ErrNotExists
    /\ Get(tree, JoinDots(Pad(<<<<>>>>))).err = nil

\* Whether the Get whose labels are the fields of s in lower case, the dots of
\* the Version as hyphens, returns s on the tree tr.
FoundByLowerCase(tr, s) ==
    LET r == Get(tr, JoinDots(SixLabels(s)))
    IN  r.err = nil /\ BagIn(s, r.services)

\* C8: whatever the letter case of the fields a service was added with, the Get
\* whose labels are those fields in lower case returns the service: right after
\* the Add that returned nil, and for as long as the tree holds the service.
C8_GetIgnoresCaseOfRegistration ==
    [][ /\ IsCall("Add") /\ last'.err = nil => FoundByLowerCase(tree', last'.arg)
        /\ \A x \in ServicesIn(tree') : FoundByLowerCase(tree', x) ]_vars

\* C8, witness: a service was added with an upper-case Host and an upper-case
\* Environment, and a Get with the labels in lower case returns it.
C8_Witness ==
    /\ last.op = "Add"
    /\ last.err = nil
    /\ last.arg.Host = <<"H">>
    /\ last.arg.Environment = <<"F">>
    /\ last.arg.UUID = <<"A">>
    /\ BagIn(last.arg,
             Get(tree, JoinDots(<<<<"a">>, <<"h">>, <<"r">>, <<"1", "-", "0">>,
                                  <<"n">>, <<"f">>>>)).services)

\* C9: for as long as a service is registered, the expiration of its leaf is
\* the time of the Add or of the last UpdateTTL that succeeded for it plus the
\* TTL of that call, and GetExpired lists its UUID at the times after that
\* expiration and at no other time.
C9_ExpiredAfterDeadline ==
    \A u \in UUIDs :
        Registered(u) =>
            /\ u \in DOMAIN nodes
            /\ Deref(tree, nodes[u]).expires = live[u].deadline
            /\ \A t \in 0..(MaxTime + 1) :
                   BagIn(u, GetExpired(tree, nodes, t)) <=> t > live[u].deadline

\* C9, witness: an UpdateTTL has succeeded for a registered service, the clock
\* has passed the new expiration and GetExpired lists the UUID, once.
C9_Witness ==
    /\ last.op = "UpdateTTL"
    /\ last.err = nil
    /\ Registered(last.arg[1])
    /\ live[last.arg[1]].deadline = last.arg[2]
    /\ now > live[last.arg[1]].deadline
    /\ CopiesIn(last.arg[1], GetExpired(tree, nodes, now)) = 1
    /\ ~BagIn(last.arg[1], GetExpired(tree, nodes, live[last.arg[1]].deadline))

\* The labels the domain of the query q asks for.
Asks(q) == IF Len(q) < 6 THEN Pad(q) ELSE q

\* The step left the tree, with its children and length counters, and the
\* identity index, with the TTL and the expiration of every node, as they were.
Untouched == tree' = tree /\ nodes' = nodes

\* A Remove of a service whose key path is not in the tree returns ErrNotExists
\* and leaves the registry as it was, and a Get leaves it as it was.
AbsentFails ==
    /\ IsCall("Remove") /\ ~HasPath(tree, Reverse(Split(getRegistryKey(last'.arg))))
           => last'.err = ErrNotExists /\ Untouched
    /\ IsCall("Get") => Untouched

\* The outcome of a call that returns ErrNotExists and leaves tr and ix alone.
Refused(tr, ix) == [tree |-> tr, nodes |-> ix, err |-> ErrNotExists]

\* RemoveUUID, GetUUID and UpdateTTL of each UUID of `unknown` return
\* ErrNotExists and leave the tree tr and the index ix as they are.
UnknownFails(tr, ix, t, unknown) ==
    \A u \in unknown :
        /\ GetUUID(tr, ix, u).err = ErrNotExists
        /\ RemoveUUID(tr, ix, u) = Refused(tr, ix)
        /\ \A ttl \in TTLs : UpdateTTL(tr, ix, u, ttl, t) = Refused(tr, ix)

\* The UUIDs under which no service is registered.
NotRegistered(lv, rg) ==
    {u \in UUIDs : ~(u \in DOMAIN lv /\ lv[u].value \in rg)}

\* Get of a domain that no registered service matches returns ErrNotExists, on
\* the tree tr with the registered services rg.
UnmatchedFails(tr, rg) ==
    \A q \in Queries :
        Matching(rg, Asks(q)) = {} => Get(tr, QueryDomain[q]).err = ErrNotExists

\* C10: on a registry of services with no dot in their UUID, Host, Region, Name
\* and Environment, a Remove of a service whose key path is absent, a
\* RemoveUUID, a GetUUID and an UpdateTTL of a UUID under which no service is
\* registered, and a Get of a domain that matches nothing return ErrNotExists
\* and leave the tree, the identity index and the TTL and expiration of every
\* leaf as they were.
C10_AbsentFailsUntouched ==
    [][ dotSafe' =>
            /\ AbsentFails
            /\ UnknownFails(tree', nodes', now', NotRegistered(live', reg'))
            /\ UnmatchedFails(tree', reg') ]_vars

\* What does hold: the same of the UUIDs that are no key of the identity index,
\* and of Get on a registry of such services.
AbsentFromIndexFails ==
    [][ /\ AbsentFails
        /\ UnknownFails(tree', nodes', now', UUIDs \ DOMAIN nodes')
        /\ dotSafe' => UnmatchedFails(tree', reg') ]_vars

\* A Remove has failed on a key of which all labels but the UUID lead into the
\* tree, and the one registered service is where it was.
AbsentFromIndexFails_Witness ==
    /\ last.op = "Remove"
    /\ last.err = ErrNotExists
    /\ DotFree(last.arg)
    /\ HasPath(tree, Front(Reverse(SixLabels(last.arg))))
    /\ ~HasPath(tree, Reverse(SixLabels(last.arg)))
    /\ dotSafe
    /\ RegistryLen(tree) = 1
    /\ Cardinality(reg) = 1
    /\ \A x \in reg : GetUUID(tree, nodes, x.UUID).s = x
    /\ Get(tree, JoinDots(SixLabels(last.arg))).err = ErrNotExists

\* RemoveUUID(u) on the tree tr and the index ix returns nil, and afterwards
\* GetUUID(u) returns ErrNotExists, GetExpired lists u at no time and Len() is
\* one less.
RemoveUUIDRemoves(tr, ix, u) ==
    LET r == RemoveUUID(tr, ix, u)
    IN  /\ r.err = nil
        /\ GetUUID(r.tree, r.nodes, u).err = ErrNotExists
        /\ \A t \in 0..(MaxTime + 1) : ~BagIn(u, GetExpired(r.tree, r.nodes, t))
        /\ RegistryLen(r.tree) = RegistryLen(tr) - 1

\* C11: on a registry of services with no dot in their UUID, Host, Region, Name
\* and Environment, whenever GetUUID(uuid) would succeed RemoveUUID(uuid) returns
\* nil, after which GetUUID(uuid) returns ErrNotExists, GetExpired does not list
\* uuid and Len() is one less; RemoveUUID returns ErrNotExists only for a uuid
\* for which GetUUID returns ErrNotExists too.
C11_RemoveUUIDOfKnownSucceeds ==
    dotSafe =>
        \A u \in UUIDs :
            GetUUID(tree, nodes, u).err = nil => RemoveUUIDRemoves(tree, nodes, u)

\* What does hold: the same of the UUIDs under which a service is registered.
RemoveUUIDOfRegisteredSucceeds ==
    dotSafe =>
        \A u \in UUIDs : Registered(u) => RemoveUUIDRemoves(tree, nodes, u)

\* A RemoveUUID of a registered service has returned nil.
RemoveUUIDOfRegisteredSucceeds_Witness ==
    /\ last.op = "RemoveUUID"
    /\ last.err = nil
    /\ dotSafe
    /\ GetUUID(tree, nodes, last.arg).err = ErrNotExists
    /\ RegistryLen(tree) = 0

\* The step is a call that may take a service out or refresh it.
RemovesOrRefreshes ==
    IsCall("Remove") \/ IsCall("RemoveUUID") \/ IsCall("UpdateTTL")

\* The records Get(domain) returns on tr.
Found(tr, domain) == BagToSet(Get(tr, domain).services)

\* C15: GetExpired and the passage of time leave the tree, the identity index
\* and Len() as they were; and no step other than a Remove, a RemoveUUID or an
\* UpdateTTL call takes a UUID off the list of GetExpired, changes what GetUUID
\* returns for it, takes a record out of what a Get returns or lowers Len().
C15_NeverSelfEvicts ==
    [][ /\ IsCall("GetExpired") \/ now' # now =>
               Untouched /\ RegistryLen(tree') = RegistryLen(tree)
        /\ ~RemovesOrRefreshes =>
               /\ \A u \in UUIDs :
                      BagIn(u, GetExpired(tree, nodes, now)) =>
                          /\ BagIn(u, GetExpired(tree', nodes', now'))
                          /\ GetUUID(tree', nodes', u) = GetUUID(tree, nodes, u)
               /\ RegistryLen(tree') >= RegistryLen(tree)
               /\ \/ tree' = tree
                  \/ \A d \in Domains : Found(tree, d) \subseteq Found(tree', d)
      ]_vars

\* C15, witness: GetExpired has listed a service whose expiration has passed,
\* and GetUUID, Get and Len() still answer for it.
C15_Witness ==
    /\ last.op = "GetExpired"
    /\ now >= 1
    /\ \E u \in DOMAIN live :
          /\ Registered(u)
          /\ BagIn(u, last.out)
          /\ now > live[u].deadline
          /\ GetUUID(tree, nodes, u).s = live[u].value
          /\ live[u].value \in Found(tree, JoinDots(SixLabels(live[u].value)))
    /\ RegistryLen(tree) = 1

\* The nodes of the tree tr, the root among them, by their paths.
NodePaths(tr) == PathsBelow(tr) \cup {<<>>}

\* The number of leaves, the nodes that hold a service, below the node n.
LeavesBelow(n) == Cardinality(ServicePaths(n))

\* C16: on a registry of services with no dot in their UUID, Host, Region, Name
\* and Environment, the length counter of every node of the tree is the number
\* of leaves below it, and that of the root is the number of registered
\* services, after the calls that succeeded and after those that failed.
C16_LengthCountsLeaves ==
    dotSafe =>
        /\ \A p \in NodePaths(tree) :
               size(NodeAt(tree, p)) = LeavesBelow(NodeAt(tree, p))
        /\ size(tree) = Cardinality(reg)

\* C16, witness: an Add or a Remove has failed on a registry that holds a
\* service, whose path has the length 1 at each of its six nodes above the leaf.
C16_Witness ==
    /\ last.op \in {"Add", "Remove"}
    /\ last.err # nil
    /\ dotSafe
    /\ Cardinality(reg) >= 1
    /\ \E p \in ServicePaths(tree) :
          /\ Len(p) = 6
          /\ \A i \in 0..5 : size(NodeAt(tree, SubSeq(p, 1, i))) >= 1
          /\ size(NodeAt(tree, p)) = 0

\* Whether every node of tr other than the root that holds no service has a
\* leaf below it.
Minimal(tr) ==
    \A p \in PathsBelow(tr) :
        NodeAt(tr, p).value = ZeroService => LeavesBelow(NodeAt(tr, p)) > 0

\* C17, as stated: between the calls the tree is minimal: every internal node
\* other than the root has a leaf below it.
C17_TreeIsMinimal == Minimal(tree)

\* C17, amended: the same on a registry of services with no dot in their UUID,
\* Host, Region, Name and Environment.
C17_TreeIsMinimalDotSafe == dotSafe => Minimal(tree)

\* C17, witness: a Remove or RemoveUUID has returned nil on such a registry and
\* the nodes that the removed leaf alone occupied are gone, and a service that
\* is still registered has its path.
C17_Witness ==
    /\ last.op \in {"Remove", "RemoveUUID"}
    /\ last.err = nil
    /\ dotSafe
    /\ Cardinality(ServicePaths(tree)) = 1
    /\ Cardinality(PathsBelow(tree)) = 6
    /\ Cardinality(reg) = 1

\* Whether the node m is the node n but for the TTL of its service and its
\* expiration.
SameButTTL(n, m) ==
    /\ DOMAIN m.leaves = DOMAIN n.leaves
    /\ m.length = n.length
    /\ m.depth = n.depth
    /\ Identity(m.value) = Identity(n.value)

\* The UUIDs of the records Get(domain) returns on tr, and the error.
FoundUUIDs(tr, domain) ==
    LET r == Get(tr, domain)
    IN  [uuids |-> {x.UUID : x \in BagToSet(r.services)}, err |-> r.err]

\* C18: an UpdateTTL(uuid, ttl) that returns nil sets the TTL and the expiration
\* of the node the index holds for uuid, and leaves alone the nodes of the tree
\* and their places, the other fields of the service, every length counter,
\* the keys of the identity index, Len(), the TTL and the expiration of every
\* other node, and the UUIDs that every Get returns.
C18_UpdateTTLChangesTTLOnly ==
    [][ IsCall("UpdateTTL") /\ last'.err = nil =>
            LET u == last'.arg[1]
            IN  /\ DOMAIN nodes' = DOMAIN nodes
                /\ RegistryLen(tree') = RegistryLen(tree)
                /\ NodePaths(tree') = NodePaths(tree)
                /\ \A p \in NodePaths(tree) :
                       /\ SameButTTL(NodeAt(tree, p), NodeAt(tree', p))
                       /\ NodeAt(tree, p).value.UUID # u
                              => /\ NodeAt(tree', p).value = NodeAt(tree, p).value
                                 /\ NodeAt(tree', p).expires = NodeAt(tree, p).expires
                /\ \A v \in DOMAIN nodes :
                       /\ nodes'[v].attached = nodes[v].attached
                       /\ nodes'[v].path = nodes[v].path
                       /\ v # u => /\ nodes'[v] = nodes[v]
                                   /\ Deref(tree', nodes'[v]).value =
                                          Deref(tree, nodes[v]).value
                                   /\ Deref(tree', nodes'[v]).expires =
                                          Deref(tree, nodes[v]).expires
                /\ Identity(Deref(tree', nodes'[u]).value) =
                       Identity(Deref(tree, nodes[u]).value)
                /\ Deref(tree', nodes'[u]).value.TTL = last'.arg[2]
                /\ Deref(tree', nodes'[u]).expires = now + last'.arg[2]
                /\ \A d \in Domains : FoundUUIDs(tree', d) = FoundUUIDs(tree, d)
      ]_vars

\* C18, witness: an UpdateTTL has changed the TTL and the expiration of one of
\* two registered services.
C18_Witness ==
    /\ last.op = "UpdateTTL"
    /\ last.err = nil
    /\ Cardinality(reg) = 2
    /\ RegistryLen(tree) = 2
    /\ Registered(last.arg[1])
    /\ \E v \in DOMAIN live :
          /\ v # last.arg[1]
          /\ Registered(v)
          /\ live[v].value.TTL # last.arg[2]
          /\ Deref(tree, nodes[v]).expires = live[v].deadline
          /\ Deref(tree, nodes[v]).expires # Deref(tree, nodes[last.arg[1]]).expires

\* The services with the UUID u whose six labels are free in the tree tr.
FreeUnder(tr, u) == {s \in Services : s.UUID = u /\ DotFree(s) /\ ~KeyTaken(tr, s)}

\* The UUID under which the service that a removal step took out was added.
RemovedUUID == Stored(tree, Asked(tree, nodes, last')).UUID

\* C19: on a registry of services with no dot in their UUID, Host, Region, Name
\* and Environment, once a Remove or RemoveUUID has returned nil for the
\* service registered under a UUID, an Add of a service with that UUID and a
\* free key returns nil, also where the Remove spelled the UUID in another
\* letter case than the Add had.
C19_RemovedUUIDCanBeAddedAgain ==
    [][ Removal /\ dotSafe /\ Registered(RemovedUUID) =>
            \A s \in FreeUnder(tree', RemovedUUID) :
                Add(tree', nodes', s, now').err = nil ]_vars

\* What does hold: the same where the removal names the UUID as the Add
\* spelled it.
SpelledUUIDCanBeAddedAgain ==
    [][ /\ Removal /\ dotSafe /\ Registered(RemovedUUID)
        /\ Asked(tree, nodes, last').UUID = RemovedUUID
        => \A s \in FreeUnder(tree', RemovedUUID) :
               Add(tree', nodes', s, now').err = nil ]_vars

\* A service was removed and added again under its UUID.
SpelledUUIDCanBeAddedAgain_Witness ==
    /\ last.op = "Add"
    /\ last.err = nil
    /\ calls = 3
    /\ balance = 1
    /\ dotSafe

\* The statements that write the tree or the index.
Writes ==
    {"addTree", "addIndex", "removeTree", "removeIndex", "setTTL", "setExpires"}

\* C12: every access to the tree and to the identity index happens with the
\* registry's mutex held, the accesses of UpdateTTL, the index lookup of
\* RemoveUUID and the read of Len included; hence no goroutine reads or writes
\* the structures while another one is about to write them.
C12_AccessesHoldMutex ==
    /\ \A p \in Procs : pc[p] \in Accesses => mutex = p
    /\ \A p \in Procs : \A q \in Procs \ {p} :
          ~(pc[p] \in Writes /\ pc[q] \in Accesses)

\* What does hold: the statements of Add, Remove, Get, GetUUID and GetExpired
\* run with the mutex held, and so does the part of RemoveUUID that is Remove.
LockedStatements ==
    {"addCheck", "addTree", "addIndex", "removeTree", "removeIndex", "read",
     "unlock"}

LockedStatementsHoldMutex ==
    \A p \in Procs : pc[p] \in LockedStatements => mutex = p

LockedStatementsHoldMutex_Witness ==
    \E p \in Procs : \E q \in Procs \ {p} :
        pc[p] = "addIndex" /\ pc[q] = "lookup"

\* The calls that take the mutex on entry.
Five == {"Add", "Remove", "Get", "GetUUID", "GetExpired"}

\* C13: Add, Remove, Get, GetUUID and GetExpired hold the mutex from their
\* first access to their last, so goroutines that call these five at the same
\* time get the errors and the results, and leave the tree and the index, that
\* the calls give when they run one at a time in the order they took the
\* mutex; while the mutex is free the structures are not partly updated.
C13_LockedCallsRunOneAtATime ==
    /\ \A p \in Procs : pc[p] \in LockedStatements => mutex = p
    /\ \A p \in Procs :
          pc[p] = "idle" /\ job[p].op \in Five =>
              job[p].err = job[p].expect.err /\ job[p].out = job[p].expect.out
    /\ mutex = Unlocked => tree = lin.tree /\ nodes = lin.nodes

\* A goroutine waits for the mutex while another one has written the tree and
\* not yet the index, and a call that waited has returned.
C13_Witness ==
    \E p \in Procs : \E q \in Procs \ {p} :
        /\ pc[p] \in IndexWrites
        /\ pc[q] = "lock"
        /\ job[q].op \in {"Get", "GetUUID", "GetExpired", "Add"}

C13_WitnessReturned ==
    \E p \in Procs : \E q \in Procs \ {p} :
        /\ pc[p] = "idle" /\ job[p].op = "Add" /\ job[p].err = nil
        /\ pc[q] = "idle" /\ job[q].op = "GetUUID" /\ job[q].err = ErrNotExists
        /\ size(tree) = 1

\* Whether goroutine p is in a call and its next statement can run: the
\* program has not stopped, and if p is at r.mutex.Lock() the mutex is free.
Runnable(p) ==
    /\ ~crashed
    /\ pc[p] # "idle"
    /\ pc[p] = "lock" => mutex = Unlocked

\* While a call is in progress some goroutine can take a step, the mutex is
\* held by a goroutine inside Add, Remove, Get, GetUUID or GetExpired and by
\* none when no call is in progress, and no goroutine waits for a mutex it
\* holds itself.
StepsOn ==
    /\ (\E p \in Procs : pc[p] # "idle") => \E q \in Procs : Runnable(q)
    /\ mutex # Unlocked => pc[mutex] \in LockedStatements
    /\ (\A p \in Procs : pc[p] = "idle") => mutex = Unlocked
    /\ \A p \in Procs : pc[p] = "lock" => mutex # p

\* C14: every call that was made returns, since a call has finitely many
\* statements and while calls are in progress one of them can always take
\* its next statement; the mutex is free whenever no call is in progress, and
\* RemoveUUID does not wait for a mutex its own caller holds.
C14_CallsReturn == StepsOn

\* What does hold: the same, short of a fatal error of the runtime.
CallsReturnShortOfFatal == ~crashed => StepsOn

CallsReturnShortOfFatal_Witness ==
    \E p \in Procs : \E q \in Procs \ {p} :
        /\ pc[p] = "lock" /\ job[p].op = "RemoveUUID"
        /\ mutex = q

\* A RemoveUUID is in progress and the program has stopped.
RemoveUUIDCutShort ==
    crashed /\ \E p \in Procs : job[p].op = "RemoveUUID" /\ pc[p] # "idle"

\* Of the RemoveUUID calls of one uuid that overlap, at most one returns nil.
OneRacerWins ==
    \A p \in Procs :
        pc[p] = "idle" /\ job[p].op = "RemoveUUID" /\ job[p].err = nil =>
            ~job[p].rival

\* RemoveUUID returns ErrNotExists only if its uuid was unregistered at some
\* moment of the call.
NotExistsMeansAbsent ==
    \A p \in Procs :
        pc[p] = "idle" /\ job[p].op = "RemoveUUID"
                       /\ job[p].err = ErrNotExists =>
            job[p].absent

NotExistsMeansAbsent_Witness ==
    \E p \in Procs :
        /\ pc[p] = "idle" /\ job[p].op = "RemoveUUID"
        /\ job[p].err = ErrNotExists
        /\ job[p].s # ZeroService

\* When RemoveUUID takes a leaf out of the tree, its uuid is registered.
RemoveUUIDRemovesItsOwn ==
    [][\A p \in Procs :
          /\ pc[p] = "removeTree"
          /\ pc'[p] = "removeIndex"
          /\ job[p].op = "RemoveUUID"
          => RegisteredIn(nodes, job[p].uuid)]_vars

\* C20: under every interleaving of RemoveUUID, Remove and Add calls, the
\* RemoveUUID calls that race on one uuid all return, exactly one of them with
\* nil, and a RemoveUUID returns ErrNotExists only if its uuid was
\* unregistered at some moment between its start and its return.
C20_RacingRemoveUUIDs ==
    /\ ~RemoveUUIDCutShort
    /\ OneRacerWins
    /\ NotExistsMeansAbsent

=============================================================================
